---------------------------- MODULE Spec2Model ----------------------------
(***************************************************************************)
(* Model of the disaster-recovery automation Lambda,                       *)
(* src/infrastructure/backup-dr/dr-automation.py.                          *)
(*                                                                         *)
(* One invocation of the module-level handler is a run of the program      *)
(* counter pc from "dispatch" to "done".  Every call to an external        *)
(* collaborator (RDS primary, RDS DR, CloudWatch, SNS) is one step whose   *)
(* response is drawn from the set of responses the client can give,        *)
(* including raising.  Strings built with f-strings are kept as records of *)
(* their parts; json.dumps bodies are kept as the records they encode.     *)
(* Pass-through fields that decide nothing (endpoint, multi_az,            *)
(* read_replica_source, threshold_seconds) are left out of the records.    *)
(***************************************************************************)
EXTENDS Integers, Sequences, FiniteSets, TLC

VARIABLES
    pc,              \* position of the invocation
    event,           \* the event passed to handler
    action,          \* local `action` of handler (line 36)
    procs,           \* how often each procedure was entered in this invocation
    calls,           \* how often each collaborator operation was called
    returned,        \* how often each collaborator operation returned normally
    notifications,   \* send_notification calls of this invocation, in order
    steps_completed, \* local list of initiate_failover / initiate_failback
    wait_time,       \* local of wait_for_db_status
    current_status,  \* local of wait_for_db_status
    health_status,   \* dict built by perform_health_check
    test_results,    \* dict built by test_disaster_recovery
    exc,             \* exception in flight (NoExc when none)
    result,          \* value returned by handler
    escaped,         \* TRUE when an exception left handler
    primary_health,  \* local of initiate_failback (line 247)
    metric_response, \* local `response` of check_replication_lag (line 142)
    replica_promoted,\* the DR collaborator has accepted a promote_read_replica
    previous         \* what the previous health check saw and reported

vars == <<pc, event, action, procs, calls, returned, notifications,
          steps_completed, wait_time, current_status, health_status,
          test_results, exc, result, escaped, primary_health,
          metric_response, replica_promoted, previous>>

---------------------------------------------------------------------------
\* Bounds of the model

\* cap on status queries of one invocation; the loop itself stops at 60
MaxPolls == 64

\* longest Datapoints list the metrics collaborator returns
MaxDatapoints == 2

---------------------------------------------------------------------------
\* Program constants

MAX_WAIT == 1800

SLEEP_SECONDS == 30

LAG_THRESHOLD == 300

TARGET_STATUS == "available"

TIMESTAMP == "self.timestamp"

---------------------------------------------------------------------------
\* Inputs

ActionTags == {"health_check", "initiate_failover", "failback", "test_dr",
               "failover", "bogus"}

Events == [hasAction : {TRUE}, action : ActionTags]
            \cup {[hasAction |-> FALSE, action |-> ""]}

DbStatuses == {"available", "modifying"}

DescribeResponses == [raises : {FALSE}, status : DbStatuses]
                       \cup {[raises |-> TRUE, status |-> ""]}

Datapoint == [Timestamp : {1, 2}, Average : {LAG_THRESHOLD - 1, LAG_THRESHOLD}]

DatapointLists == UNION {[1..n -> Datapoint] : n \in 0..MaxDatapoints}

MetricResponses == [raises : {FALSE}, Datapoints : DatapointLists]
                     \cup {[raises |-> TRUE, Datapoints |-> <<>>]}

Procedures == {"perform_health_check", "initiate_failover",
               "initiate_failback", "test_disaster_recovery"}

Collaborators == {"rds_primary.describe_db_instances",
                  "rds_dr.describe_db_instances",
                  "rds_dr.promote_read_replica",
                  "cloudwatch.get_metric_statistics",
                  "route53",
                  "sns.publish"}

---------------------------------------------------------------------------
\* Values

NoExc == [msg |-> "", arg |-> ""]

UnknownAction(a) == [msg |-> "Unknown action", arg |-> a]

DescribeError == [msg |-> "describe_db_instances raised", arg |-> ""]

PromoteError == [msg |-> "promote_read_replica raised", arg |-> ""]

MetricError == [msg |-> "get_metric_statistics raised", arg |-> ""]

PublishError == [msg |-> "publish raised", arg |-> ""]

TimeoutError == [msg |-> "did not reach status within max_wait seconds",
                 arg |-> TARGET_STATUS]

PrimaryUnhealthyError == [msg |-> "Primary database is not healthy, cannot failback",
                          arg |-> ""]

NoResult == [statusCode |-> 0, body |-> [none |-> TRUE]]

NoCheck == [healthy |-> FALSE, status |-> "unset", error |-> ""]

NoLag == [healthy |-> FALSE, lag_seconds |-> -1, error |-> "unset"]

NoHealth == [primary_db |-> NoCheck, dr_replica |-> NoCheck,
             replication_lag |-> NoLag, route53_health |-> NoCheck,
             overall_status |-> "unset"]

NoProbe == [success |-> FALSE, error |-> "unset"]

NoMetricResponse == [raises |-> TRUE, Datapoints |-> <<>>]

NoPrevious ==
    [primary |-> [raises |-> TRUE, status |-> ""],
     replica |-> [raises |-> TRUE, status |-> ""],
     metric |-> NoMetricResponse,
     health_status |-> NoHealth]

NoTests == [dr_replica_connectivity |-> NoProbe, failover_simulation |-> NoProbe,
            monitoring_alerts |-> NoProbe, backup_integrity |-> NoProbe]

Zero(S) == [x \in S |-> 0]

Inc(f, x) == [f EXCEPT ![x] = @ + 1]

Msg(text, count, cause, steps) ==
    [text |-> text, count |-> count, cause |-> cause, steps |-> steps]

---------------------------------------------------------------------------
\* handler, lines 31-58

\* event.get('action', 'health_check')
EventGet_C26Mutant(e, default) == e.action

EventGet(e, default) == IF e.hasAction THEN e.action ELSE default

Route_C1Mutant(a) ==
    CASE a = "health_check"      -> "perform_health_check"
      [] a = "initiate_failover" -> "initiate_failover"
      [] a = "failback"          -> "initiate_failover"
      [] a = "test_dr"           -> "test_disaster_recovery"
      [] OTHER                   -> "ValueError"

Route_C3Mutant(a) ==
    CASE a = "initiate_failover" -> "initiate_failover"
      [] a = "failback"          -> "initiate_failback"
      [] a = "test_dr"           -> "test_disaster_recovery"
      [] OTHER                   -> "perform_health_check"

Route_C20Mutant(a) ==
    CASE a = "health_check"      -> "perform_health_check"
      [] a = "initiate_failover" -> "initiate_failover"
      [] a = "failback"          -> "initiate_failback"
      [] a = "test_dr"           -> "initiate_failover"
      [] OTHER                   -> "ValueError"

Route_C29Mutant(a) ==
    CASE a = "health_check"      -> "perform_health_check"
      [] a = "initiate_failover" -> "initiate_failover"
      [] a = "failback"          -> "initiate_failback"
      [] a = "test_dr"           -> "test_disaster_recovery"
      [] OTHER                   -> "initiate_failover"

\* the if/elif chain of handler
Route(a) ==
    CASE a = "health_check"      -> "perform_health_check"
      [] a = "initiate_failover" -> "initiate_failover"
      [] a = "failback"          -> "initiate_failback"
      [] a = "test_dr"           -> "test_disaster_recovery"
      [] OTHER                   -> "ValueError"

EntryPc(p) ==
    CASE p = "perform_health_check"   -> "hc_primary"
      [] p = "initiate_failover"      -> "fo_start"
      [] p = "initiate_failback"      -> "fb_start"
      [] p = "test_disaster_recovery" -> "td_connectivity"

\* error_msg = f"DR Automation failed: {str(e)}"
HandlerErrorMsg(e) == [prefix |-> "DR Automation failed", cause |-> e]

ErrorResult(e) ==
    [statusCode |-> 500,
     body |-> [error |-> HandlerErrorMsg(e), timestamp |-> TIMESTAMP]]

---------------------------------------------------------------------------
\* send_notification, lines 386-399

SendNotificationRaises_C21Mutant(publishOk) == ~publishOk

SendNotificationRaises_C27Mutant(publishOk) == ~publishOk

SendNotificationRaises_Mutant(publishOk) == ~publishOk

\* the try/except around sns.publish swallows every failure
SendNotificationRaises(publishOk) == FALSE

Publish_C22Mutant(log, severity, message, publishOk) ==
    IF severity = "ERROR" THEN log
    ELSE Append(log, [severity |-> severity, message |-> message,
                      delivered |-> publishOk])

Publish(log, severity, message, publishOk) ==
    Append(log, [severity |-> severity, message |-> message,
                 delivered |-> publishOk])

---------------------------------------------------------------------------
\* sub-checks, lines 92-190

CheckPrimaryDatabase_C11Mutant(resp) ==
    IF resp.raises
    THEN [healthy |-> FALSE, status |-> "", error |-> DescribeError.msg]
    ELSE [healthy |-> TRUE, status |-> resp.status, error |-> ""]

CheckPrimaryDatabase(resp) ==
    IF resp.raises
    THEN [healthy |-> FALSE, status |-> "", error |-> DescribeError.msg]
    ELSE [healthy |-> resp.status = "available", status |-> resp.status,
          error |-> ""]

CheckDrReplica_C14Mutant(resp) ==
    IF resp.raises
    THEN [healthy |-> TRUE, status |-> "", error |-> ""]
    ELSE [healthy |-> resp.status = "available", status |-> resp.status,
          error |-> ""]

CheckDrReplica(resp) ==
    IF resp.raises
    THEN [healthy |-> FALSE, status |-> "", error |-> DescribeError.msg]
    ELSE [healthy |-> resp.status = "available", status |-> resp.status,
          error |-> ""]

CheckReplicationLag_C16Mutant(resp) ==
    IF resp.raises
    THEN [healthy |-> FALSE, lag_seconds |-> -1, error |-> MetricError.msg]
    ELSE IF resp.Datapoints # <<>>
         THEN LET latest_lag == resp.Datapoints[Len(resp.Datapoints)].Average
              IN  [healthy |-> latest_lag <= LAG_THRESHOLD,
                   lag_seconds |-> latest_lag, error |-> ""]
         ELSE [healthy |-> FALSE, lag_seconds |-> -1,
               error |-> "No replication lag metrics available"]

CheckReplicationLag(resp) ==
    IF resp.raises
    THEN [healthy |-> FALSE, lag_seconds |-> -1, error |-> MetricError.msg]
    ELSE IF resp.Datapoints # <<>>
         THEN LET latest_lag == resp.Datapoints[Len(resp.Datapoints)].Average
              IN  [healthy |-> latest_lag < LAG_THRESHOLD,
                   lag_seconds |-> latest_lag, error |-> ""]
         ELSE [healthy |-> FALSE, lag_seconds |-> -1,
               error |-> "No replication lag metrics available"]

CheckRoute53Health == [healthy |-> TRUE, status |-> "active", error |-> ""]

OverallStatus_C13Mutant(h) ==
    IF h.primary_db.healthy /\ h.dr_replica.healthy /\ h.route53_health.healthy
    THEN "healthy" ELSE "unhealthy"

OverallStatus_C23Mutant(h) ==
    IF h.primary_db.healthy /\ h.dr_replica.healthy /\ h.replication_lag.healthy
    THEN "healthy"
    ELSE IF previous.health_status = NoHealth THEN "degraded" ELSE "unhealthy"

\* lines 73-78
OverallStatus(h) ==
    IF h.primary_db.healthy /\ h.dr_replica.healthy /\ h.replication_lag.healthy
    THEN "healthy" ELSE "unhealthy"

---------------------------------------------------------------------------
Init ==
    /\ pc = "idle"
    /\ event = [hasAction |-> FALSE, action |-> ""]
    /\ action = ""
    /\ procs = Zero(Procedures)
    /\ calls = Zero(Collaborators)
    /\ returned = Zero(Collaborators)
    /\ notifications = <<>>
    /\ steps_completed = <<>>
    /\ wait_time = 0
    /\ current_status = ""
    /\ health_status = NoHealth
    /\ test_results = NoTests
    /\ exc = NoExc
    /\ result = NoResult
    /\ escaped = FALSE
    /\ primary_health = NoCheck
    /\ metric_response = NoMetricResponse
    /\ replica_promoted = FALSE
    /\ previous = NoPrevious

StartInvocation_C25Mutant(e) ==
    /\ event' = e
    /\ pc' = "dispatch"
    /\ action' = ""
    /\ procs' = Zero(Procedures)
    /\ calls' = Zero(Collaborators)
    /\ returned' = Zero(Collaborators)
    /\ notifications' = <<>>
    /\ steps_completed' = <<>>
    /\ wait_time' = 0
    /\ exc' = NoExc
    /\ result' = NoResult
    /\ escaped' = FALSE
    /\ UNCHANGED <<current_status, health_status, test_results,
                   primary_health, metric_response>>
    /\ UNCHANGED replica_promoted

\* module-level handler, lines 402-404: a fresh object per invocation, and
\* every other piece of state is a local of the methods it runs
StartInvocation(e) ==
    /\ event' = e
    /\ pc' = "dispatch"
    /\ action' = ""
    /\ procs' = Zero(Procedures)
    /\ calls' = Zero(Collaborators)
    /\ returned' = Zero(Collaborators)
    /\ notifications' = <<>>
    /\ steps_completed' = <<>>
    /\ wait_time' = 0
    /\ current_status' = ""
    /\ health_status' = NoHealth
    /\ test_results' = NoTests
    /\ exc' = NoExc
    /\ result' = NoResult
    /\ escaped' = FALSE
    /\ primary_health' = NoCheck
    /\ metric_response' = NoMetricResponse
    /\ UNCHANGED replica_promoted

Invoke ==
    /\ pc \in {"idle", "done"}
    /\ \E e \in Events : StartInvocation(e)
    /\ UNCHANGED previous

\* handler, lines 35-47
Dispatch ==
    /\ pc = "dispatch"
    /\ action' = EventGet(event, "health_check")
    /\ LET p == Route(action')
       IN  IF p = "ValueError"
           THEN /\ exc' = UnknownAction(action')
                /\ pc' = "handler_except"
                /\ UNCHANGED procs
           ELSE /\ procs' = Inc(procs, p)
                /\ pc' = EntryPc(p)
                /\ UNCHANGED exc
    /\ UNCHANGED <<primary_health, metric_response>>
    /\ UNCHANGED <<replica_promoted, previous>>
    /\ UNCHANGED <<event, calls, returned, notifications, steps_completed,
                   wait_time, current_status, health_status, test_results,
                   result, escaped>>

\* handler, lines 49-58
HandlerExcept ==
    /\ pc = "handler_except"
    /\ \E ok \in BOOLEAN :
         /\ notifications' = Publish(notifications, "ERROR",
                                     Msg("DR Automation failed", -1, exc.msg, <<>>), ok)
         /\ calls' = Inc(calls, "sns.publish")
         /\ returned' = IF ok THEN Inc(returned, "sns.publish") ELSE returned
         /\ IF SendNotificationRaises(ok)
            THEN /\ escaped' = TRUE
                 /\ exc' = PublishError
                 /\ UNCHANGED result
            ELSE /\ result' = ErrorResult(exc)
                 /\ UNCHANGED <<escaped, exc>>
    /\ pc' = "done"
    /\ UNCHANGED <<primary_health, metric_response>>
    /\ UNCHANGED <<replica_promoted, previous>>
    /\ UNCHANGED <<event, action, procs, steps_completed, wait_time,
                   current_status, health_status, test_results>>

---------------------------------------------------------------------------
\* initiate_failover, lines 192-235

FailoverErrorMsg_C7Mutant(steps, e) ==
    Msg("Failover failed at step", Len(steps) + 1, e.msg, <<>>)

FailoverErrorMsg_C9Mutant(steps, e) ==
    Msg("Failover failed at step", 0, e.msg, <<>>)

\* error_msg = f"Failover failed at step {len(steps_completed)}: {str(e)}"
FailoverErrorMsg(steps, e) ==
    Msg("Failover failed at step", Len(steps), e.msg, <<>>)

FailoverResult(steps) ==
    [statusCode |-> 200,
     body |-> [message |-> "Failover initiated successfully",
               steps_completed |-> steps, timestamp |-> TIMESTAMP]]

\* lines 196-200
FoStart ==
    /\ pc = "fo_start"
    /\ steps_completed' = <<>>
    /\ \E ok \in BOOLEAN :
         /\ notifications' = Publish(notifications, "INFO",
                 Msg("Starting DR failover procedure", -1, "", <<>>), ok)
         /\ calls' = Inc(calls, "sns.publish")
         /\ returned' = IF ok THEN Inc(returned, "sns.publish") ELSE returned
         /\ IF SendNotificationRaises(ok)
            THEN pc' = "fo_except" /\ exc' = PublishError
            ELSE pc' = "fo_promote" /\ UNCHANGED exc
    /\ UNCHANGED <<primary_health, metric_response>>
    /\ UNCHANGED <<replica_promoted, previous>>
    /\ UNCHANGED <<event, action, procs, wait_time, current_status,
                   health_status, test_results, result, escaped>>

FoPromote_C24Mutant ==
    /\ pc = "fo_promote"
    /\ IF replica_promoted
       THEN /\ steps_completed' = Append(steps_completed, "promoted_replica")
            /\ wait_time' = 0
            /\ pc' = "wait_query"
            /\ UNCHANGED <<calls, returned, exc, replica_promoted>>
       ELSE /\ calls' = Inc(calls, "rds_dr.promote_read_replica")
            /\ \E ok \in BOOLEAN :
                 IF ok
                 THEN /\ returned' = Inc(returned, "rds_dr.promote_read_replica")
                      /\ steps_completed' = Append(steps_completed, "promoted_replica")
                      /\ wait_time' = 0
                      /\ pc' = "wait_query"
                      /\ replica_promoted' = TRUE
                      /\ UNCHANGED exc
                 ELSE /\ exc' = PromoteError
                      /\ pc' = "fo_except"
                      /\ UNCHANGED <<returned, steps_completed, wait_time,
                                     replica_promoted>>
    /\ UNCHANGED <<primary_health, metric_response>>
    /\ UNCHANGED previous
    /\ UNCHANGED <<event, action, procs, notifications, current_status,
                   health_status, test_results, result, escaped>>

\* lines 202-209: promote, record the step, enter wait_for_db_status
FoPromote ==
    /\ pc = "fo_promote"
    /\ calls' = Inc(calls, "rds_dr.promote_read_replica")
    /\ \E ok \in BOOLEAN :
         IF ok
         THEN /\ returned' = Inc(returned, "rds_dr.promote_read_replica")
              /\ steps_completed' = Append(steps_completed, "promoted_replica")
              /\ wait_time' = 0
              /\ pc' = "wait_query"
              /\ replica_promoted' = TRUE
              /\ UNCHANGED exc
         ELSE /\ exc' = PromoteError
              /\ pc' = "fo_except"
              /\ UNCHANGED <<returned, steps_completed, wait_time,
                             replica_promoted>>
    /\ UNCHANGED <<primary_health, metric_response>>
    /\ UNCHANGED previous
    /\ UNCHANGED <<event, action, procs, notifications, current_status,
                   health_status, test_results, result, escaped>>

\* lines 210-215: nothing is called between the two appends
FoRecordSteps ==
    /\ pc = "wait_returned"
    /\ steps_completed' = Append(Append(steps_completed,
                                        "replica_promotion_complete"),
                                 "dns_updated")
    /\ pc' = "fo_success"
    /\ UNCHANGED <<primary_health, metric_response>>
    /\ UNCHANGED <<replica_promoted, previous>>
    /\ UNCHANGED <<event, action, procs, calls, returned, notifications,
                   wait_time, current_status, health_status, test_results,
                   exc, result, escaped>>

\* lines 217-230
FoSuccess ==
    /\ pc = "fo_success"
    /\ \E ok \in BOOLEAN :
         /\ notifications' = Publish(notifications, "SUCCESS",
                 Msg("DR Failover completed successfully", -1, "",
                     steps_completed), ok)
         /\ calls' = Inc(calls, "sns.publish")
         /\ returned' = IF ok THEN Inc(returned, "sns.publish") ELSE returned
         /\ IF SendNotificationRaises(ok)
            THEN pc' = "fo_except" /\ exc' = PublishError /\ UNCHANGED result
            ELSE /\ pc' = "done"
                 /\ result' = FailoverResult(steps_completed)
                 /\ UNCHANGED exc
    /\ UNCHANGED <<primary_health, metric_response>>
    /\ UNCHANGED <<replica_promoted, previous>>
    /\ UNCHANGED <<event, action, procs, steps_completed, wait_time,
                   current_status, health_status, test_results, escaped>>

\* lines 232-235: notify, then re-raise to handler
FoExcept ==
    /\ pc = "fo_except"
    /\ \E ok \in BOOLEAN :
         /\ notifications' = Publish(notifications, "ERROR",
                 FailoverErrorMsg(steps_completed, exc), ok)
         /\ calls' = Inc(calls, "sns.publish")
         /\ returned' = IF ok THEN Inc(returned, "sns.publish") ELSE returned
         /\ exc' = IF SendNotificationRaises(ok) THEN PublishError ELSE exc
    /\ pc' = "handler_except"
    /\ UNCHANGED <<primary_health, metric_response>>
    /\ UNCHANGED <<replica_promoted, previous>>
    /\ UNCHANGED <<event, action, procs, steps_completed, wait_time,
                   current_status, health_status, test_results, result,
                   escaped>>

---------------------------------------------------------------------------
\* wait_for_db_status, lines 369-384

NextWaitTime_Mutant(w) == w

\* wait_time += 30
NextWaitTime(w) == w + SLEEP_SECONDS

StatusReached_Mutant(current, target) == current # target

\* if current_status == target_status
StatusReached(current, target) == current = target

LoopContinues_C28Mutant(w, max_wait) == w <= max_wait

\* while wait_time < max_wait
LoopContinues(w, max_wait) == w < max_wait

\* lines 374-379: loop test, describe_db_instances, comparison
WaitQuery ==
    /\ pc = "wait_query"
    /\ LoopContinues(wait_time, MAX_WAIT)
    /\ calls["rds_dr.describe_db_instances"] < MaxPolls
    /\ calls' = Inc(calls, "rds_dr.describe_db_instances")
    /\ \E resp \in DescribeResponses :
         IF resp.raises
         THEN /\ exc' = DescribeError
              /\ pc' = "fo_except"
              /\ UNCHANGED <<returned, current_status>>
         ELSE /\ returned' = Inc(returned, "rds_dr.describe_db_instances")
              /\ current_status' = resp.status
              /\ pc' = IF StatusReached(resp.status, TARGET_STATUS)
                       THEN "wait_returned" ELSE "wait_sleep"
              /\ UNCHANGED exc
    /\ UNCHANGED <<primary_health, metric_response>>
    /\ UNCHANGED <<replica_promoted, previous>>
    /\ UNCHANGED <<event, action, procs, notifications, steps_completed,
                   wait_time, health_status, test_results, result, escaped>>

\* lines 381-382
WaitSleep ==
    /\ pc = "wait_sleep"
    /\ wait_time' = NextWaitTime(wait_time)
    /\ pc' = "wait_query"
    /\ UNCHANGED <<primary_health, metric_response>>
    /\ UNCHANGED <<replica_promoted, previous>>
    /\ UNCHANGED <<event, action, procs, calls, returned, notifications,
                   steps_completed, current_status, health_status,
                   test_results, exc, result, escaped>>

\* line 384: the loop test failed
WaitTimeout ==
    /\ pc = "wait_query"
    /\ ~LoopContinues(wait_time, MAX_WAIT)
    /\ exc' = TimeoutError
    /\ pc' = "fo_except"
    /\ UNCHANGED <<primary_health, metric_response>>
    /\ UNCHANGED <<replica_promoted, previous>>
    /\ UNCHANGED <<event, action, procs, calls, returned, notifications,
                   steps_completed, wait_time, current_status, health_status,
                   test_results, result, escaped>>

---------------------------------------------------------------------------
\* initiate_failback, lines 237-276

FailbackErrorMsg(e) == Msg("Failback failed", -1, e.msg, <<>>)

FailbackResult(steps) ==
    [statusCode |-> 200,
     body |-> [message |-> "Failback completed successfully",
               steps_completed |-> steps, timestamp |-> TIMESTAMP]]

\* lines 241-244
FbStart ==
    /\ pc = "fb_start"
    /\ steps_completed' = <<>>
    /\ \E ok \in BOOLEAN :
         /\ notifications' = Publish(notifications, "INFO",
                 Msg("Starting failback procedure", -1, "", <<>>), ok)
         /\ calls' = Inc(calls, "sns.publish")
         /\ returned' = IF ok THEN Inc(returned, "sns.publish") ELSE returned
         /\ IF SendNotificationRaises(ok)
            THEN pc' = "fb_except" /\ exc' = PublishError
            ELSE pc' = "fb_check" /\ UNCHANGED exc
    /\ UNCHANGED <<primary_health, metric_response>>
    /\ UNCHANGED <<replica_promoted, previous>>
    /\ UNCHANGED <<event, action, procs, wait_time, current_status,
                   health_status, test_results, result, escaped>>

\* lines 246-257: check_primary_database, then both appends
FbCheckPrimary ==
    /\ pc = "fb_check"
    /\ calls' = Inc(calls, "rds_primary.describe_db_instances")
    /\ \E resp \in DescribeResponses :
         LET health == CheckPrimaryDatabase(resp)
         IN  /\ primary_health' = health
             /\ returned' = IF resp.raises THEN returned
                            ELSE Inc(returned, "rds_primary.describe_db_instances")
             /\ IF health.healthy
                THEN /\ steps_completed' =
                          Append(Append(steps_completed,
                                        "primary_health_verified"),
                                 "dns_reverted")
                     /\ pc' = "fb_success"
                     /\ UNCHANGED exc
                ELSE /\ exc' = PrimaryUnhealthyError
                     /\ pc' = "fb_except"
                     /\ UNCHANGED steps_completed
    /\ UNCHANGED metric_response
    /\ UNCHANGED <<replica_promoted, previous>>
    /\ UNCHANGED <<event, action, procs, notifications, wait_time,
                   current_status, health_status, test_results, result,
                   escaped>>

\* lines 259-271
FbSuccess ==
    /\ pc = "fb_success"
    /\ \E ok \in BOOLEAN :
         /\ notifications' = Publish(notifications, "SUCCESS",
                 Msg("Failback completed successfully", -1, "",
                     steps_completed), ok)
         /\ calls' = Inc(calls, "sns.publish")
         /\ returned' = IF ok THEN Inc(returned, "sns.publish") ELSE returned
         /\ IF SendNotificationRaises(ok)
            THEN pc' = "fb_except" /\ exc' = PublishError /\ UNCHANGED result
            ELSE /\ pc' = "done"
                 /\ result' = FailbackResult(steps_completed)
                 /\ UNCHANGED exc
    /\ UNCHANGED <<primary_health, metric_response>>
    /\ UNCHANGED <<replica_promoted, previous>>
    /\ UNCHANGED <<event, action, procs, steps_completed, wait_time,
                   current_status, health_status, test_results, escaped>>

\* lines 273-276
FbExcept ==
    /\ pc = "fb_except"
    /\ \E ok \in BOOLEAN :
         /\ notifications' = Publish(notifications, "ERROR",
                                     FailbackErrorMsg(exc), ok)
         /\ calls' = Inc(calls, "sns.publish")
         /\ returned' = IF ok THEN Inc(returned, "sns.publish") ELSE returned
         /\ exc' = IF SendNotificationRaises(ok) THEN PublishError ELSE exc
    /\ pc' = "handler_except"
    /\ UNCHANGED <<primary_health, metric_response>>
    /\ UNCHANGED <<replica_promoted, previous>>
    /\ UNCHANGED <<event, action, procs, steps_completed, wait_time,
                   current_status, health_status, test_results, result,
                   escaped>>

---------------------------------------------------------------------------
\* perform_health_check, lines 60-90

AlertNeeded_C15Mutant(h) == TRUE

\* line 81: if health_status['overall_status'] == 'unhealthy'
AlertNeeded(h) == h.overall_status = "unhealthy"

HealthResult(h) == [statusCode |-> 200, body |-> h]

HealthWarningMsg(h) ==
    [text |-> "DR Health Check Failed", count |-> -1, cause |-> "",
     steps |-> <<>>, report |-> h]

\* line 65
HcPrimaryStep(resp) ==
    /\ pc = "hc_primary"
    /\ calls' = Inc(calls, "rds_primary.describe_db_instances")
    /\ returned' = IF resp.raises THEN returned
                   ELSE Inc(returned, "rds_primary.describe_db_instances")
    /\ health_status' = [health_status EXCEPT
                           !.primary_db = CheckPrimaryDatabase(resp)]
    /\ pc' = "hc_replica"
    /\ UNCHANGED <<primary_health, metric_response>>
    /\ UNCHANGED replica_promoted
    /\ UNCHANGED <<event, action, procs, notifications, steps_completed,
                   wait_time, current_status, test_results, exc, result,
                   escaped>>

HcPrimary ==
    \E resp \in DescribeResponses : HcPrimaryStep(resp) /\ UNCHANGED previous

\* line 66
HcReplicaStep(resp) ==
    /\ pc = "hc_replica"
    /\ calls' = Inc(calls, "rds_dr.describe_db_instances")
    /\ returned' = IF resp.raises THEN returned
                   ELSE Inc(returned, "rds_dr.describe_db_instances")
    /\ health_status' = [health_status EXCEPT
                           !.dr_replica = CheckDrReplica(resp)]
    /\ pc' = "hc_lag"
    /\ UNCHANGED <<primary_health, metric_response>>
    /\ UNCHANGED replica_promoted
    /\ UNCHANGED <<event, action, procs, notifications, steps_completed,
                   wait_time, current_status, test_results, exc, result,
                   escaped>>

HcReplica ==
    \E resp \in DescribeResponses : HcReplicaStep(resp) /\ UNCHANGED previous

\* line 67
HcLagStep(resp) ==
    /\ pc = "hc_lag"
    /\ calls' = Inc(calls, "cloudwatch.get_metric_statistics")
    /\ metric_response' = resp
    /\ returned' = IF resp.raises THEN returned
                   ELSE Inc(returned, "cloudwatch.get_metric_statistics")
    /\ health_status' = [health_status EXCEPT
                           !.replication_lag = CheckReplicationLag(resp)]
    /\ pc' = "hc_finish"
    /\ UNCHANGED primary_health
    /\ UNCHANGED replica_promoted
    /\ UNCHANGED <<event, action, procs, notifications, steps_completed,
                   wait_time, current_status, test_results, exc, result,
                   escaped>>

HcLag ==
    \E resp \in MetricResponses : HcLagStep(resp) /\ UNCHANGED previous

\* lines 68-90: placeholder route53 check, aggregate, alert, return
HcFinish ==
    /\ pc = "hc_finish"
    /\ LET h1 == [health_status EXCEPT !.route53_health = CheckRoute53Health]
           h  == [h1 EXCEPT !.overall_status = OverallStatus(h1)]
       IN  /\ health_status' = h
           /\ IF AlertNeeded(h)
              THEN \E ok \in BOOLEAN :
                     /\ notifications' = Publish(notifications, "WARNING",
                                                 HealthWarningMsg(h), ok)
                     /\ calls' = Inc(calls, "sns.publish")
                     /\ returned' = IF ok THEN Inc(returned, "sns.publish")
                                    ELSE returned
                     /\ IF SendNotificationRaises(ok)
                        THEN /\ pc' = "handler_except"
                             /\ exc' = PublishError
                             /\ UNCHANGED result
                        ELSE /\ pc' = "done"
                             /\ result' = HealthResult(h)
                             /\ UNCHANGED exc
              ELSE /\ pc' = "done"
                   /\ result' = HealthResult(h)
                   /\ UNCHANGED <<notifications, calls, returned, exc>>
    /\ UNCHANGED <<primary_health, metric_response>>
    /\ UNCHANGED <<replica_promoted, previous>>
    /\ UNCHANGED <<event, action, procs, steps_completed, wait_time,
                   current_status, test_results, escaped>>

---------------------------------------------------------------------------
\* test_disaster_recovery, lines 278-367

\* test_dr_connectivity, lines 312-326
TestDrConnectivity(resp) ==
    LET dr_health == CheckDrReplica(resp)
    IN  [success |-> dr_health.healthy, details |-> dr_health]

\* simulate_failover, lines 328-340
SimulateFailover ==
    [success |-> TRUE,
     simulated_steps |-> <<"promote_replica", "update_dns",
                           "verify_connectivity">>]

\* test_monitoring_alerts, lines 342-357
TestMonitoringAlerts(raised) ==
    IF raised THEN [success |-> FALSE, error |-> PublishError.msg]
    ELSE [success |-> TRUE, alert_sent |-> TRUE]

\* test_backup_integrity, lines 359-367
TestBackupIntegrity == [success |-> TRUE, backups_verified |-> TRUE]

OverallSuccess_C18Mutant(t) ==
    /\ t.failover_simulation.success
    /\ t.monitoring_alerts.success
    /\ t.backup_integrity.success

\* line 290
OverallSuccess(t) ==
    /\ t.dr_replica_connectivity.success
    /\ t.failover_simulation.success
    /\ t.monitoring_alerts.success
    /\ t.backup_integrity.success

TestResult(t) ==
    [statusCode |-> 200,
     body |-> [test_results |-> t, overall_success |-> OverallSuccess(t),
               timestamp |-> TIMESTAMP]]

TestInfoMsg_C19Mutant(t) ==
    [text |-> "DR Test Results", count |-> -1,
     cause |-> IF OverallSuccess(t) THEN "PASSED" ELSE "FAILED",
     steps |-> <<>>, report |-> NoTests]

\* lines 292-296
TestInfoMsg(t) ==
    [text |-> "DR Test Results", count |-> -1,
     cause |-> IF OverallSuccess(t) THEN "PASSED" ELSE "FAILED",
     steps |-> <<>>, report |-> t]

\* line 284
TdConnectivity ==
    /\ pc = "td_connectivity"
    /\ calls' = Inc(calls, "rds_dr.describe_db_instances")
    /\ \E resp \in DescribeResponses :
         /\ returned' = IF resp.raises THEN returned
                        ELSE Inc(returned, "rds_dr.describe_db_instances")
         /\ test_results' = [test_results EXCEPT
                !.dr_replica_connectivity = TestDrConnectivity(resp)]
    /\ pc' = "td_alerts"
    /\ UNCHANGED <<primary_health, metric_response>>
    /\ UNCHANGED <<replica_promoted, previous>>
    /\ UNCHANGED <<event, action, procs, notifications, steps_completed,
                   wait_time, current_status, health_status, exc, result,
                   escaped>>

\* lines 285-286: the simulation calls nothing, the alert test publishes
TdAlerts ==
    /\ pc = "td_alerts"
    /\ \E ok \in BOOLEAN :
         /\ notifications' = Publish(notifications, "TEST",
                 Msg("DR Test Alert", -1, "", <<>>), ok)
         /\ calls' = Inc(calls, "sns.publish")
         /\ returned' = IF ok THEN Inc(returned, "sns.publish") ELSE returned
         /\ test_results' = [test_results EXCEPT
                !.failover_simulation = SimulateFailover,
                !.monitoring_alerts =
                    TestMonitoringAlerts(SendNotificationRaises(ok))]
    /\ pc' = "td_finish"
    /\ UNCHANGED <<primary_health, metric_response>>
    /\ UNCHANGED <<replica_promoted, previous>>
    /\ UNCHANGED <<event, action, procs, steps_completed, wait_time,
                   current_status, health_status, exc, result, escaped>>

\* lines 287-310: backup probe, aggregate, INFO notification, return;
\* the except block runs only if send_notification raises
TdFinish ==
    /\ pc = "td_finish"
    /\ LET t == [test_results EXCEPT !.backup_integrity = TestBackupIntegrity]
       IN  /\ test_results' = t
           /\ \E ok \in BOOLEAN :
                IF SendNotificationRaises(ok)
                THEN \E ok2 \in BOOLEAN :
                       /\ notifications' =
                            Publish(Publish(notifications, "INFO",
                                            TestInfoMsg(t), ok),
                                    "ERROR",
                                    Msg("DR testing failed", -1,
                                        PublishError.msg, <<>>), ok2)
                       /\ calls' = Inc(Inc(calls, "sns.publish"), "sns.publish")
                       /\ returned' = IF ok2 THEN Inc(returned, "sns.publish")
                                      ELSE returned
                       /\ exc' = PublishError
                       /\ pc' = "handler_except"
                       /\ UNCHANGED result
                ELSE /\ notifications' = Publish(notifications, "INFO",
                                                 TestInfoMsg(t), ok)
                     /\ calls' = Inc(calls, "sns.publish")
                     /\ returned' = IF ok THEN Inc(returned, "sns.publish")
                                    ELSE returned
                     /\ result' = TestResult(t)
                     /\ pc' = "done"
                     /\ UNCHANGED exc
    /\ UNCHANGED <<primary_health, metric_response>>
    /\ UNCHANGED <<replica_promoted, previous>>
    /\ UNCHANGED <<event, action, procs, steps_completed, wait_time,
                   current_status, health_status, escaped>>

---------------------------------------------------------------------------
Next ==
    \/ Invoke
    \/ Dispatch
    \/ HandlerExcept
    \/ HcPrimary
    \/ HcReplica
    \/ HcLag
    \/ HcFinish
    \/ FoStart
    \/ FoPromote
    \/ WaitQuery
    \/ WaitSleep
    \/ WaitTimeout
    \/ FoRecordSteps
    \/ FoSuccess
    \/ FoExcept
    \/ FbStart
    \/ FbCheckPrimary
    \/ FbSuccess
    \/ FbExcept
    \/ TdConnectivity
    \/ TdAlerts
    \/ TdFinish

Spec == Init /\ [][Next]_vars

\* the invocation is sequential code: an enabled step is taken
FairSpec == Spec /\ WF_vars(Next)

---------------------------------------------------------------------------
\* Two health checks in a row against collaborators whose state does not
\* change in between: the second check is given the responses the first got.

HealthEvents == {e \in Events : EventGet(e, "health_check") = "health_check"}

FirstCheck == previous.health_status = NoHealth

TwiceInvoke ==
    /\ pc = "idle"
    /\ \E e \in HealthEvents : StartInvocation(e)
    /\ UNCHANGED previous

TwiceAgain ==
    /\ pc = "done"
    /\ FirstCheck
    /\ \E e \in HealthEvents : StartInvocation(e)
    /\ previous' = [previous EXCEPT !.health_status = health_status]

TwicePrimary ==
    IF FirstCheck
    THEN \E resp \in DescribeResponses :
           /\ HcPrimaryStep(resp)
           /\ previous' = [previous EXCEPT !.primary = resp]
    ELSE HcPrimaryStep(previous.primary) /\ UNCHANGED previous

TwiceReplica ==
    IF FirstCheck
    THEN \E resp \in DescribeResponses :
           /\ HcReplicaStep(resp)
           /\ previous' = [previous EXCEPT !.replica = resp]
    ELSE HcReplicaStep(previous.replica) /\ UNCHANGED previous

TwiceLag ==
    IF FirstCheck
    THEN \E resp \in MetricResponses :
           /\ HcLagStep(resp)
           /\ previous' = [previous EXCEPT !.metric = resp]
    ELSE HcLagStep(previous.metric) /\ UNCHANGED previous

NextTwice ==
    \/ TwiceInvoke
    \/ TwiceAgain
    \/ Dispatch
    \/ TwicePrimary
    \/ TwiceReplica
    \/ TwiceLag
    \/ HcFinish

SpecTwice == Init /\ [][NextTwice]_vars

TypeOK ==
    /\ pc \in {"idle", "dispatch", "handler_except", "done",
               "hc_primary", "hc_replica", "hc_lag", "hc_finish",
               "fo_start", "fo_promote", "wait_query", "wait_sleep",
               "wait_returned", "fo_success", "fo_except",
               "fb_start", "fb_check", "fb_success", "fb_except",
               "td_connectivity", "td_alerts", "td_finish"}
    /\ event \in Events
    /\ action \in ActionTags \cup {""}
    /\ wait_time \in 0..MAX_WAIT
    /\ steps_completed \in Seq({"promoted_replica", "replica_promotion_complete",
                                "dns_updated", "primary_health_verified",
                                "dns_reverted"})
    /\ escaped \in BOOLEAN
    /\ replica_promoted \in BOOLEAN
    /\ previous.primary \in DescribeResponses
    /\ previous.replica \in DescribeResponses
    /\ previous.metric \in MetricResponses

---------------------------------------------------------------------------
\* Vocabulary of the properties

CountSeverity(sev) ==
    Cardinality({i \in 1..Len(notifications) : notifications[i].severity = sev})

CountText(text) ==
    Cardinality({i \in 1..Len(notifications) :
                   notifications[i].message.text = text})

RanExactly(p) == procs = [q \in Procedures |-> IF q = p THEN 1 ELSE 0]

Dispatched == pc \notin {"idle", "dispatch"}

RecognizedTags == {"health_check", "initiate_failover", "failback", "test_dr"}

\* the procedure a tag names
ProcedureNamed(tag) ==
    CASE tag = "health_check" -> "perform_health_check"
      [] tag \in {"failover", "initiate_failover"} -> "initiate_failover"
      [] tag = "failback" -> "initiate_failback"
      [] tag = "test_dr" -> "test_disaster_recovery"

\* the collaborator operation that performs a step
StepCall(step) ==
    CASE step = "promoted_replica" -> "rds_dr.promote_read_replica"
      [] step = "replica_promotion_complete" -> "rds_dr.describe_db_instances"
      [] step = "primary_health_verified" -> "rds_primary.describe_db_instances"
      [] step \in {"dns_updated", "dns_reverted"} -> "route53"

InWait == pc \in {"wait_query", "wait_sleep"}

FailoverSteps == <<"promoted_replica", "replica_promotion_complete", "dns_updated">>

---------------------------------------------------------------------------
\* C1 (as stated): for each of the tags health_check, failover, failback and
\* test_dr the handler runs the procedure of that name exactly once and no
\* other procedure.
C1_TagsAsStated ==
    (Dispatched /\ event.hasAction
       /\ event.action \in {"health_check", "failover", "failback", "test_dr"})
    => RanExactly(ProcedureNamed(event.action))

\* C1 (amended): for each of the tags health_check, initiate_failover,
\* failback and test_dr the handler runs the procedure of that name exactly
\* once and no other procedure; the tag failover runs no procedure.
C1_RoutesRecognizedTags ==
    /\ (Dispatched /\ event.hasAction /\ event.action \in RecognizedTags)
       => RanExactly(ProcedureNamed(event.action))
    /\ (Dispatched /\ event.hasAction /\ event.action = "failover")
       => procs = Zero(Procedures)

C1_Witness ==
    /\ pc = "done"
    /\ event.hasAction /\ event.action = "initiate_failover"
    /\ RanExactly("initiate_failover")
    /\ result.statusCode = 200

\* C2: an invocation that ends in a status-500 result has attempted exactly
\* one ERROR notification.
C2_ExactlyOneError ==
    (pc = "done" /\ result.statusCode = 500) => CountSeverity("ERROR") = 1

\* C3: for an unrecognized action tag no procedure runs and no database,
\* metrics or DNS collaborator is called at any point of the invocation, and
\* the result is status 500 with the unknown-action message in its error field.
C3_UnknownActionRejected ==
    (Dispatched /\ action \notin RecognizedTags)
    => /\ procs = Zero(Procedures)
       /\ \A c \in Collaborators \ {"sns.publish"} : calls[c] = 0
       /\ pc = "done" =>
            /\ result.statusCode = 500
            /\ "error" \in DOMAIN result.body
            /\ result.body.error = HandlerErrorMsg(UnknownAction(action))

C3_Witness ==
    /\ pc = "done"
    /\ action = "bogus"
    /\ result.statusCode = 500
    /\ result.body.error.cause.msg = "Unknown action"

\* C4: every invocation returns a result with status 200 or 500 and no
\* exception leaves the handler, whatever the collaborators (the notification
\* sink included) do; a failed procedure yields status 500 with the propagated
\* message in the error field.
C4_AlwaysStructuredResult ==
    /\ ~escaped
    /\ pc = "done" =>
         /\ result.statusCode \in {200, 500}
         /\ exc = NoExc => result.statusCode = 200
         /\ exc # NoExc =>
              /\ result.statusCode = 500
              /\ "error" \in DOMAIN result.body
              /\ result.body.error.cause = exc

C4_Witness ==
    /\ pc = "done"
    /\ action = "initiate_failover"
    /\ result.statusCode = 500
    /\ exc = PromoteError
    /\ \A i \in 1..Len(notifications) : ~notifications[i].delivered

\* C5: a step name is in steps_completed only if the collaborator call that
\* performs the step was made and returned successfully.
C5_StepsOnlyAfterCall ==
    \A i \in 1..Len(steps_completed) :
        returned[StepCall(steps_completed[i])] > 0

\* C6: when promote succeeds and the poll ends by observing available,
\* failover ends with steps_completed = [promoted_replica,
\* replica_promotion_complete, dns_updated], exactly one SUCCESS notification
\* and a status-200 result carrying that list.
C6_FailoverCompletes ==
    (/\ pc = "done"
     /\ procs["initiate_failover"] = 1
     /\ returned["rds_dr.promote_read_replica"] = 1
     /\ current_status = TARGET_STATUS)
    => /\ steps_completed = FailoverSteps
       /\ CountSeverity("SUCCESS") = 1
       /\ result.statusCode = 200
       /\ "steps_completed" \in DOMAIN result.body
       /\ result.body.steps_completed = FailoverSteps

C6_Witness ==
    /\ pc = "done"
    /\ procs["initiate_failover"] = 1
    /\ calls["rds_dr.describe_db_instances"] = 2
    /\ wait_time = SLEEP_SECONDS
    /\ current_status = TARGET_STATUS
    /\ result.statusCode = 200

\* C7: when promote raises, steps_completed stays empty, no status poll and
\* no later step happens, the procedure sends exactly one ERROR notification
\* (reporting 0 steps) and the exception reaches the procedure's caller.
C7_PromoteRaises ==
    (/\ pc \in {"fo_except", "handler_except", "done"}
     /\ calls["rds_dr.promote_read_replica"] = 1
     /\ returned["rds_dr.promote_read_replica"] = 0)
    => /\ steps_completed = <<>>
       /\ calls["rds_dr.describe_db_instances"] = 0
       /\ CountSeverity("SUCCESS") = 0
       /\ pc = "handler_except" =>
            /\ exc = PromoteError
            /\ CountSeverity("ERROR") = 1
            /\ notifications[Len(notifications)].severity = "ERROR"
            /\ notifications[Len(notifications)].message.text
                 = "Failover failed at step"
            /\ notifications[Len(notifications)].message.count = 0
       /\ pc = "done" =>
            /\ CountText("Failover failed at step") = 1
            /\ result.body.error.cause = PromoteError

C7_Witness ==
    /\ pc = "handler_except"
    /\ calls["rds_dr.promote_read_replica"] = 1
    /\ returned["rds_dr.promote_read_replica"] = 0
    /\ exc = PromoteError

\* C8: when a step of failover or failback fails, the result returned to the
\* caller reports the steps completed so far.
C8_ResultReportsSteps ==
    (/\ pc = "done"
     /\ result.statusCode = 500
     /\ procs["initiate_failover"] + procs["initiate_failback"] > 0)
    => /\ "steps_completed" \in DOMAIN result.body
       /\ result.body.steps_completed = steps_completed

\* C9: when promote succeeds but the poll never observes available (timeout,
\* or a status query raises), steps_completed is exactly [promoted_replica],
\* no SUCCESS notification is sent, an ERROR notification naming 1 completed
\* step is sent, and the handler returns status 500.
C9_PollFailure ==
    (/\ pc = "done"
     /\ procs["initiate_failover"] = 1
     /\ returned["rds_dr.promote_read_replica"] = 1
     /\ current_status # TARGET_STATUS)
    => /\ steps_completed = <<"promoted_replica">>
       /\ CountSeverity("SUCCESS") = 0
       /\ \E i \in 1..Len(notifications) :
            /\ notifications[i].severity = "ERROR"
            /\ notifications[i].message.text = "Failover failed at step"
            /\ notifications[i].message.count = 1
       /\ result.statusCode = 500
       /\ exc \in {TimeoutError, DescribeError}

C9_Witness ==
    /\ pc = "done"
    /\ exc = TimeoutError
    /\ wait_time = MAX_WAIT
    /\ steps_completed = <<"promoted_replica">>
    /\ result.statusCode = 500

\* C10: wait_for_db_status always terminates: one status query per
\* 30-second interval, an immediate return when a query reports the target
\* status, and a timeout failure once the accumulated wait reaches 1800.
C10_WaitTerminates ==
    /\ [](InWait =>
            /\ wait_time <= MAX_WAIT
            /\ wait_time % SLEEP_SECONDS = 0
            /\ calls["rds_dr.describe_db_instances"]
                 = (wait_time \div SLEEP_SECONDS)
                     + (IF pc = "wait_sleep" THEN 1 ELSE 0))
    /\ [](pc = "wait_sleep" => current_status # TARGET_STATUS)
    /\ [](pc = "wait_returned" => current_status = TARGET_STATUS)
    /\ []((pc = "fo_except" /\ exc = TimeoutError) => wait_time = MAX_WAIT)
    /\ (InWait ~> ~InWait)

C10_Witness ==
    /\ pc = "fo_except"
    /\ exc = TimeoutError
    /\ wait_time = MAX_WAIT
    /\ calls["rds_dr.describe_db_instances"] = MAX_WAIT \div SLEEP_SECONDS

---------------------------------------------------------------------------
\* Vocabulary of the properties on failback, health check and DR test

HealthCheckDone == pc = "done" /\ procs["perform_health_check"] = 1

LagEvaluated ==
    /\ pc \in {"hc_finish", "done"}
    /\ procs["perform_health_check"] = 1
    /\ ~metric_response.raises

TestDone == pc = "done" /\ procs["test_disaster_recovery"] = 1

ProbeNames == {"dr_replica_connectivity", "failover_simulation",
               "monitoring_alerts", "backup_integrity"}

\* the error text a probe record carries, at top level or in its details
ProbeError(p) ==
    IF "error" \in DOMAIN p THEN p.error
    ELSE IF "details" \in DOMAIN p THEN p.details.error
    ELSE ""

---------------------------------------------------------------------------
\* C11: when the primary database reports unhealthy (status not available, or
\* describe raises), initiate_failback raises at once: no replica or DNS
\* collaborator is called, no step is recorded, no SUCCESS notification is sent.
C11_FailbackFailsFast ==
    (/\ pc \in {"fb_except", "handler_except", "done"}
     /\ procs["initiate_failback"] = 1
     /\ calls["rds_primary.describe_db_instances"] = 1
     /\ primary_health.status # "available")
    => /\ exc = PrimaryUnhealthyError
       /\ steps_completed = <<>>
       /\ calls["rds_dr.describe_db_instances"] = 0
       /\ calls["rds_dr.promote_read_replica"] = 0
       /\ calls["route53"] = 0
       /\ CountSeverity("SUCCESS") = 0
       /\ pc = "done" => result.statusCode = 500

C11_Witness ==
    /\ pc = "fb_except"
    /\ primary_health.status = "modifying"
    /\ exc = PrimaryUnhealthyError
    /\ steps_completed = <<>>

\* C12: with a healthy primary, a failback that returns status 200 has
\* re-established the replica relationship through a database collaborator
\* call and then repointed DNS through the DNS collaborator.
C12_FailbackRestores ==
    (/\ pc = "done"
     /\ procs["initiate_failback"] = 1
     /\ result.statusCode = 200)
    => /\ \E c \in Collaborators \ {"rds_primary.describe_db_instances",
                                    "sns.publish", "route53"} :
            returned[c] > 0
       /\ returned["route53"] > 0

\* C13: overall_status is healthy iff the primary, replica and lag sub-checks
\* are all healthy, and the DNS health value does not influence it.
C13_OverallStatus ==
    HealthCheckDone =>
       /\ health_status.overall_status \in {"healthy", "unhealthy"}
       /\ health_status.overall_status = "healthy"
            <=> (/\ health_status.primary_db.healthy
                 /\ health_status.dr_replica.healthy
                 /\ health_status.replication_lag.healthy)
       /\ \A b \in BOOLEAN :
            OverallStatus([health_status EXCEPT !.route53_health.healthy = b])
              = health_status.overall_status
       /\ result.body.overall_status = health_status.overall_status

C13_Witness ==
    /\ HealthCheckDone
    /\ health_status.primary_db.healthy
    /\ health_status.dr_replica.healthy
    /\ ~health_status.replication_lag.healthy
    /\ health_status.route53_health.healthy
    /\ health_status.overall_status = "unhealthy"

\* C14: a collaborator exception in one sub-check yields healthy = false with
\* an error text for that sub-check only; every sub-check is still executed
\* and reported, and the health check returns status 200 even when every
\* collaborator raises.
C14_SubChecksIsolated ==
    HealthCheckDone =>
       /\ result.statusCode = 200
       /\ result.body = health_status
       /\ calls["rds_primary.describe_db_instances"] = 1
       /\ calls["rds_dr.describe_db_instances"] = 1
       /\ calls["cloudwatch.get_metric_statistics"] = 1
       /\ health_status.route53_health = CheckRoute53Health
       /\ IF returned["rds_primary.describe_db_instances"] = 0
          THEN /\ ~health_status.primary_db.healthy
               /\ health_status.primary_db.error # ""
          ELSE /\ health_status.primary_db.error = ""
               /\ health_status.primary_db.status \in DbStatuses
       /\ IF returned["rds_dr.describe_db_instances"] = 0
          THEN /\ ~health_status.dr_replica.healthy
               /\ health_status.dr_replica.error # ""
          ELSE /\ health_status.dr_replica.error = ""
               /\ health_status.dr_replica.status \in DbStatuses
       /\ IF returned["cloudwatch.get_metric_statistics"] = 0
          THEN /\ ~health_status.replication_lag.healthy
               /\ health_status.replication_lag.error = MetricError.msg
          ELSE health_status.replication_lag.error # MetricError.msg

C14_Witness ==
    /\ HealthCheckDone
    /\ returned["rds_primary.describe_db_instances"] = 0
    /\ returned["rds_dr.describe_db_instances"] = 0
    /\ returned["cloudwatch.get_metric_statistics"] = 0
    /\ result.statusCode = 200

\* C15: a health check sends exactly one WARNING notification when the
\* aggregate is unhealthy and no notification at all when it is healthy.
C15_WarningIffUnhealthy ==
    HealthCheckDone =>
       /\ health_status.overall_status = "unhealthy" =>
            /\ Len(notifications) = 1
            /\ notifications[1].severity = "WARNING"
            /\ notifications[1].message.report = health_status
       /\ health_status.overall_status = "healthy" => notifications = <<>>

C15_Witness ==
    /\ HealthCheckDone
    /\ health_status.overall_status = "unhealthy"
    /\ CountSeverity("WARNING") = 1

\* C16: the lag sub-check is healthy iff a datapoint was returned and the
\* evaluated value is strictly below 300: 299 is healthy, 300 is unhealthy,
\* an empty datapoint list is unhealthy with an error text.
C16_LagThreshold ==
    LagEvaluated =>
       LET dp  == metric_response.Datapoints
           lag == health_status.replication_lag
       IN  /\ lag.healthy <=> (Len(dp) >= 1 /\ lag.lag_seconds < 300)
           /\ Len(dp) >= 1 =>
                /\ \E i \in 1..Len(dp) : dp[i].Average = lag.lag_seconds
                /\ lag.lag_seconds = 299 => lag.healthy
                /\ lag.lag_seconds = 300 => ~lag.healthy
           /\ dp = <<>> => (~lag.healthy /\ lag.error # "")

C16_Witness ==
    /\ LagEvaluated
    /\ pc = "done"
    /\ Len(metric_response.Datapoints) = 1
    /\ health_status.replication_lag.lag_seconds = 299
    /\ health_status.replication_lag.healthy

\* C17: the lag sub-check evaluates the datapoint with the latest timestamp
\* among those returned, whatever their order.
C17_LatestDatapoint ==
    (LagEvaluated /\ metric_response.Datapoints # <<>>) =>
       LET dp == metric_response.Datapoints
       IN  \E i \in 1..Len(dp) :
              /\ \A j \in 1..Len(dp) : dp[j].Timestamp <= dp[i].Timestamp
              /\ health_status.replication_lag.lag_seconds = dp[i].Average

\* C18 (as stated): overall_success is the AND of the four probes' success
\* flags, and every probe that fails is reported as success = false with an
\* error.
C18_FailureCarriesError ==
    TestDone =>
       /\ result.body.overall_success
            = (\A n \in ProbeNames : test_results[n].success)
       /\ \A n \in ProbeNames :
            ~test_results[n].success => ProbeError(test_results[n]) # ""

\* C18 (amended): overall_success is the AND of the four probes' success
\* flags; only the replica-connectivity probe can report failure; its failure
\* is reported as success = false with the replica health record as details
\* (an error text when describe raised, the status otherwise), makes
\* overall_success false and leaves the other three probes in the report.
C18_OverallSuccessIsAnd ==
    TestDone =>
       LET c == test_results.dr_replica_connectivity
       IN  /\ result.body.overall_success
                = (\A n \in ProbeNames : test_results[n].success)
           /\ result.body.test_results = test_results
           /\ test_results.failover_simulation = SimulateFailover
           /\ test_results.monitoring_alerts # NoProbe
           /\ test_results.backup_integrity = TestBackupIntegrity
           /\ \A n \in ProbeNames \ {"dr_replica_connectivity"} :
                test_results[n].success
           /\ ~c.success =>
                /\ ~result.body.overall_success
                /\ ~c.details.healthy
                /\ IF returned["rds_dr.describe_db_instances"] = 0
                   THEN c.details.error # ""
                   ELSE c.details.error = "" /\ c.details.status # "available"

C18_Witness ==
    /\ TestDone
    /\ ~test_results.dr_replica_connectivity.success
    /\ test_results.dr_replica_connectivity.details.status = "modifying"
    /\ ~result.body.overall_success
    /\ test_results.backup_integrity.success

\* C19: test_dr always returns status 200 and sends exactly one INFO
\* notification carrying the per-probe breakdown, whatever overall_success is.
C19_TestAlwaysReports ==
    TestDone =>
       /\ result.statusCode = 200
       /\ CountSeverity("INFO") = 1
       /\ LET n == notifications[Len(notifications)]
          IN  /\ n.severity = "INFO"
              /\ n.message.report = test_results
              /\ n.message.cause
                   = (IF result.body.overall_success THEN "PASSED" ELSE "FAILED")

C19_Witness ==
    /\ TestDone
    /\ ~result.body.overall_success
    /\ result.statusCode = 200
    /\ CountSeverity("INFO") = 1

\* C20: no execution of test_dr makes a mutating collaborator call: the
\* replica is never promoted, DNS is never changed, the simulation only lists
\* step names, and the only outbound writes are notifications.
C20_TestMutatesNothing ==
    (Dispatched /\ action = "test_dr")
    => /\ calls["rds_dr.promote_read_replica"] = 0
       /\ calls["route53"] = 0
       /\ \A c \in Collaborators \ {"rds_dr.describe_db_instances", "sns.publish"} :
            calls[c] = 0
       /\ steps_completed = <<>>
       /\ pc = "done" =>
            /\ "simulated_steps" \in DOMAIN test_results.failover_simulation
            /\ test_results.failover_simulation.simulated_steps
                 = <<"promote_replica", "update_dns", "verify_connectivity">>

C20_Witness ==
    /\ pc = "done"
    /\ action = "test_dr"
    /\ calls["sns.publish"] = 2
    /\ calls["rds_dr.describe_db_instances"] = 1
    /\ test_results.failover_simulation.success

---------------------------------------------------------------------------
\* the errors a procedure or the dispatch can raise on its own account
OriginalErrors ==
    {DescribeError, PromoteError, TimeoutError, PrimaryUnhealthyError}
      \cup {UnknownAction(a) : a \in ActionTags}

\* the result the handler owes to the outcome of the procedure it ran,
\* computed without looking at what the sink did with any notification
ExpectedResult ==
    IF exc # NoExc THEN ErrorResult(exc)
    ELSE CASE procs["perform_health_check"] = 1 -> HealthResult(health_status)
           [] procs["initiate_failover"] = 1 -> FailoverResult(steps_completed)
           [] procs["initiate_failback"] = 1 -> FailbackResult(steps_completed)
           [] procs["test_disaster_recovery"] = 1 -> TestResult(test_results)
           [] OTHER -> NoResult

Undelivered == {i \in 1..Len(notifications) : ~notifications[i].delivered}

\* C21: a failure of the notification sink is never propagated: no
\* invocation escapes the handler or fails with the sink's error, the result
\* returned is the one the procedure's outcome determines whether or not any
\* publish failed, and a failed invocation reports its original error.
C21_SinkFailureAbsorbed ==
    /\ ~escaped
    /\ exc # PublishError
    /\ pc = "done" =>
         /\ result = ExpectedResult
         /\ exc # NoExc =>
              /\ exc \in OriginalErrors
              /\ result.statusCode = 500
              /\ result.body.error.cause = exc

C21_Witness ==
    /\ pc = "done"
    /\ procs["initiate_failover"] = 1
    /\ Len(notifications) = 3
    /\ Undelivered = 1..Len(notifications)
    /\ exc = PromoteError
    /\ result = ErrorResult(PromoteError)

\* C22: whenever the handler returns status 500 for a failed failover or
\* failback, an ERROR notification was attempted before the result existed:
\* the failure has already been notified when it reaches the handler's
\* except block, and no result is set until that block has published.
C22_ErrorNotifiedFirst ==
    (procs["initiate_failover"] = 1 \/ procs["initiate_failback"] = 1)
    => /\ pc = "handler_except" =>
            /\ result = NoResult
            /\ CountSeverity("ERROR") >= 1
            /\ calls["sns.publish"] >= 2
       /\ (pc = "done" /\ result.statusCode = 500) =>
            /\ CountSeverity("ERROR") >= 1
            /\ notifications[Len(notifications)].severity = "ERROR"

C22_Witness ==
    /\ pc = "done"
    /\ procs["initiate_failback"] = 1
    /\ result.statusCode = 500
    /\ CountSeverity("ERROR") >= 1
    /\ Undelivered # {}

\* C26: an event without an action field is handled as health_check: the
\* health check runs once, no other procedure runs, nothing is raised, and
\* the invocation returns status 200.
C26_MissingActionIsHealthCheck ==
    (Dispatched /\ ~event.hasAction)
    => /\ action = "health_check"
       /\ RanExactly("perform_health_check")
       /\ exc = NoExc
       /\ pc = "done" => result.statusCode = 200

C26_Witness ==
    /\ pc = "done"
    /\ ~event.hasAction
    /\ procs["perform_health_check"] = 1
    /\ result.statusCode = 200
    /\ result.body.overall_status = "unhealthy"

\* C27: the monitoring-alert probe of test_dr reports success in every
\* execution, also when the publish of the TEST notification failed; the
\* overall verdict is then decided by the connectivity probe alone.
C27_AlertProbeAlwaysSucceeds ==
    (procs["test_disaster_recovery"] = 1 /\ pc \in {"td_finish", "done"})
    => /\ test_results.monitoring_alerts = [success |-> TRUE, alert_sent |-> TRUE]
       /\ CountSeverity("TEST") = 1
       /\ pc = "done" =>
            result.body.overall_success
              = test_results.dr_replica_connectivity.success

C27_Witness ==
    /\ TestDone
    /\ \E i \in Undelivered : notifications[i].severity = "TEST"
    /\ test_results.monitoring_alerts.success
    /\ result.body.overall_success

\* the invocation failed with the timeout of wait_for_db_status
TimedOut == exc = TimeoutError /\ pc \in {"fo_except", "handler_except", "done"}

\* C28: with the ceiling of 1800 a wait that never sees the target status
\* makes exactly 60 status queries, at accumulated waits 0, 30, ..., 1770,
\* sleeps once more and raises the timeout without another query, whatever
\* the instance's status has become after the 60th query.
C28_SixtyQueriesThenTimeout ==
    /\ [](TimedOut =>
            /\ calls["rds_dr.describe_db_instances"] = 60
            /\ returned["rds_dr.describe_db_instances"] = 60
            /\ wait_time = 1800
            /\ current_status # TARGET_STATUS)
    /\ [](pc = "wait_sleep" =>
            /\ wait_time \in {30 * k : k \in 0..59}
            /\ calls["rds_dr.describe_db_instances"] = (wait_time \div 30) + 1)
    /\ [][(exc' = TimeoutError /\ exc # TimeoutError) =>
            /\ calls' = calls
            /\ current_status' = current_status
            /\ wait_time = 1800
            /\ calls["rds_dr.describe_db_instances"] = 60]_vars

C28_Witness ==
    /\ pc = "done"
    /\ exc = TimeoutError
    /\ calls["rds_dr.describe_db_instances"] = 60
    /\ wait_time = 1800
    /\ result.statusCode = 500

PromoteCall == "rds_dr.promote_read_replica"

\* C29: promote_read_replica is issued only by failover: a failover
\* invocation calls it exactly once, after the INFO start notification and
\* before any status poll; invocations with any other tag never call it.
C29_PromoteOnlyByFailover ==
    /\ [](calls[PromoteCall] <= 1)
    /\ [](calls[PromoteCall] = 1 =>
            action = "initiate_failover" /\ RanExactly("initiate_failover"))
    /\ []((procs["initiate_failover"] = 1 /\ pc \notin {"fo_start", "fo_promote"})
            => calls[PromoteCall] = 1)
    /\ [][calls'[PromoteCall] > calls[PromoteCall] =>
            /\ Len(notifications) = 1
            /\ notifications[1].severity = "INFO"
            /\ notifications[1].message.text = "Starting DR failover procedure"
            /\ notifications' = notifications
            /\ calls["rds_dr.describe_db_instances"] = 0
            /\ calls' = Inc(calls, PromoteCall)]_vars

C29_Witness ==
    /\ pc = "wait_query"
    /\ calls[PromoteCall] = 1
    /\ calls["rds_dr.describe_db_instances"] = 0
    /\ Len(notifications) = 1
    /\ steps_completed = <<"promoted_replica">>

\* an earlier invocation promoted the replica and no promote call of this
\* invocation has been accepted
RepeatNotAccepted == replica_promoted /\ returned[PromoteCall] = 0

\* C24: failover is not re-entrant: every failover invocation issues the
\* promote call before it has queried any database, and one that runs after
\* an earlier invocation promoted the replica still issues it; when the
\* collaborator rejects the repeated promotion the invocation fails at step 0
\* with no step recorded and status 500.
C24_FailoverNotReentrant ==
    procs["initiate_failover"] = 1
    => /\ pc = "fo_promote" =>
            /\ calls["rds_dr.describe_db_instances"] = 0
            /\ calls["rds_primary.describe_db_instances"] = 0
            /\ calls[PromoteCall] = 0
       /\ pc \notin {"fo_start", "fo_promote"} => calls[PromoteCall] = 1
       /\ (RepeatNotAccepted /\ pc \notin {"fo_start", "fo_promote"}) =>
            /\ exc = PromoteError
            /\ steps_completed = <<>>
            /\ "promoted_replica" \notin {steps_completed[i] :
                                           i \in 1..Len(steps_completed)}
       /\ (RepeatNotAccepted /\ pc = "done") =>
            /\ result = ErrorResult(PromoteError)
            /\ \E i \in 1..Len(notifications) :
                 /\ notifications[i].severity = "ERROR"
                 /\ notifications[i].message = FailoverErrorMsg(<<>>, PromoteError)

C24_Witness ==
    /\ pc = "done"
    /\ procs["initiate_failover"] = 1
    /\ RepeatNotAccepted
    /\ calls[PromoteCall] = 1
    /\ steps_completed = <<>>
    /\ result.statusCode = 500

\* every per-invocation variable has the value it has before the first
\* invocation of the process
FreshInvocation ==
    /\ action = ""
    /\ procs = Zero(Procedures)
    /\ calls = Zero(Collaborators)
    /\ returned = Zero(Collaborators)
    /\ notifications = <<>>
    /\ steps_completed = <<>>
    /\ wait_time = 0
    /\ current_status = ""
    /\ health_status = NoHealth
    /\ test_results = NoTests
    /\ exc = NoExc
    /\ result = NoResult
    /\ ~escaped
    /\ primary_health = NoCheck
    /\ metric_response = NoMetricResponse

\* C25: no in-process state is carried between invocations: whatever was
\* handled earlier, an invocation starts from the state of a fresh process
\* and differs only in its event, and it runs at most one procedure once.
C25_NoCarriedState ==
    /\ pc = "dispatch" => FreshInvocation
    /\ \A p \in Procedures : procs[p] <= 1
    /\ Cardinality({p \in Procedures : procs[p] = 1}) <= 1
    /\ pc = "done" => result = ExpectedResult

C25_Witness ==
    /\ pc = "dispatch"
    /\ replica_promoted
    /\ event.hasAction
    /\ event.action = "health_check"
    /\ FreshInvocation

SecondCheckDone == HealthCheckDone /\ ~FirstCheck

SubChecks == {"primary_db", "dr_replica", "replication_lag", "route53_health"}

====
